---------------------------- MODULE Spec2Model ----------------------------
(***************************************************************************)
(* A model of the parallel task-distribution and progress-tracking engine  *)
(* of jpeg-compressor.                                                     *)
(*                                                                         *)
(*   src/compressor.py      prepare_tasks, compress_and_save_many,         *)
(*                          compress_and_save_one, increment_with_lock,    *)
(*                          main (queue launcher)                          *)
(*   src/jpeg-compressor.py show_progress, main (queue launcher with a     *)
(*                          progress bar)                                  *)
(*   src/cli.py             get_compress_jobs, compress_and_save_many,     *)
(*                          __main__ (static sharding)                     *)
(*   src/main.py            Worker.run, MainWindow handlers (GUI launcher) *)
(*                                                                         *)
(* A file name is a sequence of one-character strings, a path a sequence   *)
(* of names, the file system a function from the existing paths to nodes.  *)
(***************************************************************************)
EXTENDS Integers, Sequences, FiniteSets, Bags, TLC

VARIABLES
    fs,           \* the file system: existing path -> node
    num_workers,  \* run configuration: number of worker processes
    tasks,        \* the multiprocessing.Queue of (input file, output file)
    num_tasks,    \* len(tasks_list) of the current run
    counter,      \* progress_counter.value
    lockHolder,   \* the process inside "with counter.get_lock()", or 0
    pc,           \* position of each worker process
    task,         \* the task a worker process holds
    tmp,          \* the value a worker read in "counter.value += 1"
    mainPc,       \* position of the main process of the launcher
    spawned,      \* number of processes started by the launcher
    joined,       \* number of processes joined by the launcher
    run,          \* number of the current run
    enumerated,   \* tasks_list of the current run
    invoked,      \* per run: bag of <<worker, task>> calls of compress_and_save_one
    failed,       \* tasks of the current run whose compress_and_save_one raised
    firstRun,     \* what the first run left behind: [total, count, crashed]
    btn,          \* MainWindow: [use_start_btn, disable] as set_btn_state left them
    threadRunning,\* MainWindow: worker_thread.isRunning()
    runPc,        \* position of Worker.run in the worker thread
    sample,       \* the value of the last progress signal, or pbar.n
    stopped,      \* a stop was requested in the current run
    discarded,    \* the tasks the stop removed from the queue
    inflight,     \* the tasks worker processes held when the stop was requested
    emitted,      \* number of progress signals or bar updates of the current
                  \* run, modulo 2
    launcher,     \* the program that was started: "compressor",
                  \* "jpeg-compressor", "cli" or "main"
    jobs          \* cli.py: the list of jobs each worker process still has
                  \* to go through

guiVars == <<btn, threadRunning, runPc, sample, stopped, discarded, inflight,
             emitted>>

vars == <<fs, num_workers, tasks, num_tasks, counter, lockHolder, pc, task, tmp,
          mainPc, spawned, joined, run, enumerated, invoked, failed, firstRun,
          guiVars, launcher, jobs>>

---------------------------------------------------------------------------
(* Bounds of the model                                                     *)

MaxWorkers == 2
MaxEntries == 2
MaxRuns == 2
MaxJobs == 5      \* longest jobs_list handed to get_compress_jobs alone
MaxShards == 4    \* largest num_workers handed to get_compress_jobs alone

Workers == 1..MaxWorkers

---------------------------------------------------------------------------
(* Names and paths                                                         *)

Range(s) == {s[i] : i \in DOMAIN s}

Last(s) == s[Len(s)]

Front(s) == SubSeq(s, 1, Len(s) - 1)

IsPrefix(p, q) == Len(p) <= Len(q) /\ SubSeq(q, 1, Len(p)) = p

\* str.rfind('.'), one-based; 0 when the name holds no dot
RFindDot(name) ==
    LET dots == {i \in DOMAIN name : name[i] = "."}
    IN  IF dots = {} THEN 0 ELSE CHOOSE i \in dots : \A j \in dots : j <= i

\* PurePath.suffix: the part of the name from its last dot, unless that dot
\* is the first or the last character
Suffix(name) ==
    LET i == RFindDot(name)
    IN  IF 1 < i /\ i < Len(name) THEN SubSeq(name, i, Len(name)) ELSE <<>>

\* fnmatch of a name against the pattern "*.*"
MatchesStarDotStar(name) == \E i \in DOMAIN name : name[i] = "."

SUFFIXES == { <<".", "j", "p", "g">>, <<".", "j", "p", "e", "g">>,
              <<".", "J", "P", "G">>, <<".", "J", "P", "E", "G">> }

\* Path.relative_to
RelativeTo(p, base) == SubSeq(p, Len(base) + 1, Len(p))

\* the "/" operator of Path
Join(base, rel) == base \o rel

InputDir == << <<"i", "n">> >>

OutputDir == << <<"o", "u", "t">> >>

max_width == 1920

---------------------------------------------------------------------------
(* The file system                                                         *)

DirNode == [kind |-> "dir", id |-> "", img |-> "none", width |-> 0,
            readable |-> TRUE, enc |-> "none"]

\* img: "rgb" saves as JPEG, "rgba" opens but cannot be written as JPEG,
\* "none" is not an image Pillow can identify; readable: the process may
\* open the file for reading
FileNode(id, img, width, readable) ==
    [kind |-> "file", id |-> id, img |-> img, width |-> width,
     readable |-> readable, enc |-> "orig"]

Exists(f, p) == p \in DOMAIN f

IsDir(f, p) == Exists(f, p) /\ f[p].kind = "dir"

IsFile(f, p) == Exists(f, p) /\ f[p].kind = "file"

Put(f, p, node) == [q \in DOMAIN f \cup {p} |-> IF q = p THEN node ELSE f[q]]

Prefixes(p) == {SubSeq(p, 1, n) : n \in 1..Len(p)}

\* Path.mkdir(parents=True, exist_ok=True): FileExistsError when the path or
\* one of its parents is a file
MkdirRaises(f, p) == \E q \in Prefixes(p) : IsFile(f, q)

Mkdir(f, p) ==
    [q \in DOMAIN f \cup Prefixes(p) |-> IF q \in DOMAIN f THEN f[q] ELSE DirNode]

\* The entries the input trees of the model are drawn from, relative to the
\* input directory
Catalog ==
    LET a == << <<"a", ".", "j", "p", "g">> >>
        b == << <<"b", ".", "p", "n", "g">> >>
        r == << <<"R", "E", "A", "D", "M", "E">> >>
        c == << <<"c", ".", "j", "p", "g">> >>
        d == << <<"d", ".", "v">> >>
        e == << <<"d", ".", "v">>, <<"e", ".", "J", "P", "G">> >>
        u == << <<"u", ".", "t", "x", "t">> >>
    IN  [x \in {a, b, r, c, d, e, u} |->
            CASE x = a -> FileNode("a", "rgb", 4000, TRUE)
              [] x = b -> FileNode("b", "rgba", 4000, TRUE)
              [] x = r -> FileNode("r", "none", 0, TRUE)
              [] x = c -> FileNode("c", "none", 0, TRUE)
              [] x = d -> DirNode
              [] x = e -> FileNode("e", "rgb", 1920, TRUE)
              [] x = u -> FileNode("u", "none", 0, FALSE)]

\* a set of catalog entries is a tree when it holds the directories of its entries
IsTree(S) == \A x \in S : \A q \in Prefixes(x) : q \in S

Trees == {S \in SUBSET DOMAIN Catalog : IsTree(S) /\ Cardinality(S) <= MaxEntries}

\* the file system holding the input tree S and, copied by an earlier run,
\* the outputs of the entries in Done
MakeFs(S, Done) ==
    LET ins == {Join(InputDir, x) : x \in S}
        outs == UNION {Prefixes(Join(OutputDir, x)) : x \in Done}
    IN  [p \in {InputDir} \cup ins \cup outs |->
            IF p = InputDir THEN DirNode
            ELSE IF p \in ins THEN Catalog[RelativeTo(p, InputDir)]
            ELSE IF p = OutputDir THEN DirNode
            ELSE IF RelativeTo(p, OutputDir) \in Done
                 THEN Catalog[RelativeTo(p, OutputDir)]
            ELSE DirNode]

\* the file system in which neither the input nor the output directory exists
NoInputFs == [p \in {} |-> DirNode]

\* the file systems a run may start on
InitialFs ==
    {NoInputFs} \cup UNION {{MakeFs(S, Done) : Done \in SUBSET S} : S \in Trees}

---------------------------------------------------------------------------
(* compressor.prepare_tasks                                                *)

\* get_output_file
GetOutputFile(input_file, input_dir, output_dir) ==
    Join(output_dir, RelativeTo(input_file, input_dir))

\* input_dir.rglob("*.*"): every entry below input_dir, file or directory,
\* whose name matches the pattern; nothing, and no error, when input_dir is
\* not a directory
Rglob(f, input_dir) ==
    {p \in DOMAIN f : /\ IsDir(f, input_dir)
                      /\ IsPrefix(input_dir, p)
                      /\ p # input_dir
                      /\ MatchesStarDotStar(Last(p))}

\* a tasks_list that is not filtered by the outputs that exist
TaskSetUnfiltered(f, input_dir, output_dir) ==
    {<<p, GetOutputFile(p, input_dir, output_dir)>> : p \in Rglob(f, input_dir)}

\* the set behind tasks_list
TaskSet(f, input_dir, output_dir) ==
    {<<p, GetOutputFile(p, input_dir, output_dir)>> :
        p \in {q \in Rglob(f, input_dir) :
                 ~Exists(f, GetOutputFile(q, input_dir, output_dir))}}

\* the orders a directory scan may list a set in
Orderings(S) ==
    {s \in [1..Cardinality(S) -> S] : \A i, j \in DOMAIN s : s[i] = s[j] => i = j}

\* the file system after output_dir.mkdir(parents=True, exist_ok=True)
PrepareFs(f, output_dir) == Mkdir(f, output_dir)

\* the values tasks_list may take
TasksLists(f, input_dir, output_dir) ==
    Orderings(TaskSet(PrepareFs(f, output_dir), input_dir, output_dir))

---------------------------------------------------------------------------
(* compressor.compress_and_save_one                                        *)

\* Image.open succeeds on a readable file holding an image
CanOpenImage(f, p) == IsFile(f, p) /\ f[p].readable /\ f[p].img # "none"

\* image.save(output_file, "JPEG", ...) raises OSError for an image mode JPEG
\* cannot hold, and for a destination that is a directory
SaveRaises(f, input_file, output_file) ==
    f[input_file].img # "rgb" \/ IsDir(f, output_file)

\* int(width * (max_width / width)), a float product that is max_width for
\* the widths of the catalog
ResizedWidth(width, mw) == (width * mw) \div width

Resized(node, mw) ==
    [node EXCEPT !.width = ResizedWidth(node.width, mw), !.img = "rgb", !.enc = "q95"]

\* shutil.copy: into the directory when dst is one; raises when src is not a
\* readable regular file
CopyTarget(f, src, dst) == IF IsDir(f, dst) THEN dst \o <<Last(src)>> ELSE dst

CopyRaises(f, src, dst) ==
    \/ ~IsFile(f, src)
    \/ ~f[src].readable
    \/ ~IsDir(f, Front(CopyTarget(f, src, dst)))
    \/ IsDir(f, CopyTarget(f, src, dst))

Copy(f, src, dst) ==
    IF CopyRaises(f, src, dst)
    THEN [fs |-> f, raised |-> TRUE]
    ELSE [fs |-> Put(f, CopyTarget(f, src, dst), f[src]), raised |-> FALSE]

\* the file system compress_and_save_one leaves, and whether it raised
CompressAndSaveOne(f, input_file, output_file, mw) ==
    IF MkdirRaises(f, Front(output_file))
    THEN [fs |-> f, raised |-> TRUE]
    ELSE LET f1 == Mkdir(f, Front(output_file))
         IN  IF Suffix(Last(input_file)) \in SUFFIXES
             THEN IF ~CanOpenImage(f1, input_file)
                  THEN [fs |-> f1, raised |-> TRUE]
                  ELSE IF f1[input_file].width > mw
                          /\ ~SaveRaises(f1, input_file, output_file)
                       THEN [fs |-> Put(f1, output_file, Resized(f1[input_file], mw)),
                             raised |-> FALSE]
                       ELSE Copy(f1, input_file, output_file)
             ELSE Copy(f1, input_file, output_file)

---------------------------------------------------------------------------
(* compressor.compress_and_save_many: one worker process                   *)

NoTask == <<>>

Alive(w) == pc[w] \in {"get", "one", "lock", "add", "next", "job"}

Gone(w) == pc[w] \in {"exited", "crashed"}

\* a get without a timeout: it waits until the queue holds a task
GetBlocking(w) ==
    /\ pc[w] = "get"
    /\ tasks # <<>>
    /\ task' = [task EXCEPT ![w] = Head(tasks)]
    /\ tasks' = Tail(tasks)
    /\ pc' = [pc EXCEPT ![w] = "one"]
    /\ UNCHANGED <<fs, num_workers, num_tasks, counter, lockHolder, tmp, mainPc,
                   spawned, joined, run, enumerated, invoked, failed, firstRun,
                   guiVars>>
    /\ UNCHANGED <<launcher, jobs>>

\* a get that leaves the task in the queue
GetPeek(w) ==
    /\ pc[w] = "get"
    /\ IF tasks # <<>>
       THEN /\ task' = [task EXCEPT ![w] = Head(tasks)]
            /\ pc' = [pc EXCEPT ![w] = "one"]
            /\ UNCHANGED tasks
       ELSE /\ pc' = [pc EXCEPT ![w] = "exited"]
            /\ UNCHANGED <<task, tasks>>
    /\ UNCHANGED <<fs, num_workers, num_tasks, counter, lockHolder, tmp, mainPc,
                   spawned, joined, run, enumerated, invoked, failed, firstRun,
                   guiVars>>
    /\ UNCHANGED <<launcher, jobs>>

\* tasks.get(timeout=1): the head of the queue, or Empty, which ends the loop
Get(w) ==
    /\ pc[w] = "get"
    /\ IF tasks # <<>>
       THEN /\ task' = [task EXCEPT ![w] = Head(tasks)]
            /\ tasks' = Tail(tasks)
            /\ pc' = [pc EXCEPT ![w] = "one"]
       ELSE /\ pc' = [pc EXCEPT ![w] = "exited"]
            /\ UNCHANGED <<task, tasks>>
    /\ UNCHANGED <<fs, num_workers, num_tasks, counter, lockHolder, tmp, mainPc,
                   spawned, joined, run, enumerated, invoked, failed, firstRun,
                   guiVars>>
    /\ UNCHANGED <<launcher, jobs>>

\* a loop body that goes on to increment_with_lock also when
\* compress_and_save_one raised
OneCountsFailure(w) ==
    /\ pc[w] = "one"
    /\ LET r == CompressAndSaveOne(fs, task[w][1], task[w][2], max_width)
       IN  /\ fs' = r.fs
           /\ invoked' = invoked (+) SetToBag({<<w, task[w]>>})
           /\ failed' = IF r.raised THEN failed \cup {task[w]} ELSE failed
    /\ pc' = [pc EXCEPT ![w] = "lock"]
    /\ UNCHANGED <<num_workers, tasks, num_tasks, counter, lockHolder, task, tmp,
                   mainPc, spawned, joined, run, enumerated, firstRun,
                   guiVars>>
    /\ UNCHANGED <<launcher, jobs>>

\* compress_and_save_one(task[0], task[1], max_width); an exception it raises
\* is not caught by the loop (only Empty is) and ends the process
One(w) ==
    /\ pc[w] = "one"
    /\ LET r == CompressAndSaveOne(fs, task[w][1], task[w][2], max_width)
       IN  /\ fs' = r.fs
           /\ invoked' = invoked (+) SetToBag({<<w, task[w]>>})
           /\ IF r.raised
              THEN /\ pc' = [pc EXCEPT ![w] = "crashed"]
                   /\ failed' = failed \cup {task[w]}
              ELSE /\ pc' = [pc EXCEPT ![w] = "lock"]
                   /\ UNCHANGED failed
    /\ UNCHANGED <<num_workers, tasks, num_tasks, counter, lockHolder, task, tmp,
                   mainPc, spawned, joined, run, enumerated, firstRun,
                   guiVars>>
    /\ UNCHANGED <<launcher, jobs>>

\* a lock that excludes nobody
CanAcquireAlways(holder) == TRUE

\* counter.get_lock() can be entered when no process holds it
CanAcquire(holder) == holder = 0

\* increment_with_lock: enter the lock and read counter.value
Lock(w) ==
    /\ pc[w] = "lock"
    /\ CanAcquire(lockHolder)
    /\ lockHolder' = w
    /\ tmp' = [tmp EXCEPT ![w] = counter]
    /\ pc' = [pc EXCEPT ![w] = "add"]
    /\ UNCHANGED <<fs, num_workers, tasks, num_tasks, counter, task, mainPc,
                   spawned, joined, run, enumerated, invoked, failed, firstRun,
                   guiVars>>
    /\ UNCHANGED <<launcher, jobs>>

\* increment_with_lock: write counter.value and leave the lock
Add(w) ==
    /\ pc[w] = "add"
    /\ counter' = tmp[w] + 1
    /\ lockHolder' = IF lockHolder = w THEN 0 ELSE lockHolder
    /\ pc' = [pc EXCEPT ![w] = "get"]
    /\ task' = [task EXCEPT ![w] = NoTask]
    /\ tmp' = [tmp EXCEPT ![w] = 0]
    /\ UNCHANGED <<fs, num_workers, tasks, num_tasks, mainPc, spawned, joined,
                   run, enumerated, invoked, failed, firstRun,
                   guiVars>>
    /\ UNCHANGED <<launcher, jobs>>

---------------------------------------------------------------------------
(* compressor.main: the queue launcher                                     *)

NoProcesses == [w \in Workers |-> "unborn"]

\* progress_counter = Value("i", 0); num_tasks, tasks = prepare_tasks(...)
MainPrepare ==
    /\ mainPc = "prepare"
    /\ fs' = PrepareFs(fs, OutputDir)
    /\ \E l \in TasksLists(fs, InputDir, OutputDir) :
          /\ tasks' = l
          /\ enumerated' = l
          /\ num_tasks' = Len(l)
    /\ counter' = 0
    /\ mainPc' = "spawn"
    /\ UNCHANGED <<num_workers, lockHolder, pc, task, tmp, spawned, joined, run,
                   invoked, failed, firstRun,
                   guiVars>>
    /\ UNCHANGED <<launcher, jobs>>

\* one turn of "for _ in range(num_workers): ... p.start()"
MainSpawn ==
    /\ mainPc = "spawn"
    /\ spawned < num_workers
    /\ pc' = [pc EXCEPT ![spawned + 1] = "get"]
    /\ spawned' = spawned + 1
    /\ mainPc' = IF spawned + 1 < num_workers THEN "spawn"
                 ELSE IF launcher = "jpeg-compressor" THEN "show"
                 ELSE "join"
    /\ UNCHANGED <<fs, num_workers, tasks, num_tasks, counter, lockHolder, task, tmp,
                   joined, run, enumerated, invoked, failed, firstRun,
                   guiVars>>
    /\ UNCHANGED <<launcher, jobs>>

\* one turn of "for p in processes: p.join()"
MainJoin ==
    /\ mainPc = "join"
    /\ joined < num_workers
    /\ Gone(joined + 1)
    /\ joined' = joined + 1
    /\ UNCHANGED <<fs, num_workers, tasks, num_tasks, counter, lockHolder, pc, task,
                   tmp, mainPc, spawned, run, enumerated, invoked, failed, firstRun,
                   guiVars>>
    /\ UNCHANGED <<launcher, jobs>>

\* print("All done!")
MainDone ==
    /\ mainPc = "join"
    /\ joined = num_workers
    /\ mainPc' = "done"
    /\ firstRun' = IF run = 1
                   THEN [total |-> num_tasks, count |-> counter,
                         crashed |-> {w \in Workers : pc[w] = "crashed"} # {}]
                   ELSE firstRun
    /\ UNCHANGED <<fs, num_workers, tasks, num_tasks, counter, lockHolder, pc, task,
                   tmp, spawned, joined, run, enumerated, invoked, failed, guiVars>>
    /\ UNCHANGED <<launcher, jobs>>

\* the program is started again on the same input and output directories
Rerun ==
    /\ mainPc = "done"
    /\ run < MaxRuns
    /\ run' = run + 1
    /\ mainPc' = "prepare"
    /\ pc' = NoProcesses
    /\ task' = [w \in Workers |-> NoTask]
    /\ tmp' = [w \in Workers |-> 0]
    /\ spawned' = 0
    /\ joined' = 0
    /\ tasks' = <<>>
    /\ enumerated' = <<>>
    /\ num_tasks' = 0
    /\ counter' = 0
    /\ invoked' = EmptyBag
    /\ failed' = {}
    /\ sample' = 0
    /\ emitted' = 0
    /\ UNCHANGED <<fs, num_workers, lockHolder, firstRun,
                   btn, threadRunning, runPc, stopped, discarded, inflight>>
    /\ UNCHANGED <<launcher, jobs>>

NoRun == [total |-> 0, count |-> 0, crashed |-> FALSE]

Init ==
    /\ fs \in InitialFs
    /\ num_workers \in 1..MaxWorkers
    /\ tasks = <<>>
    /\ num_tasks = 0
    /\ counter = 0
    /\ lockHolder = 0
    /\ pc = NoProcesses
    /\ task = [w \in Workers |-> NoTask]
    /\ tmp = [w \in Workers |-> 0]
    /\ mainPc = "prepare"
    /\ spawned = 0
    /\ joined = 0
    /\ run = 1
    /\ enumerated = <<>>
    /\ invoked = EmptyBag
    /\ failed = {}
    /\ firstRun = NoRun
    /\ launcher = "compressor"
    /\ jobs = <<>>
    /\ btn = [use_start_btn |-> TRUE, disable |-> FALSE]
    /\ threadRunning = FALSE
    /\ runPc = "idle"
    /\ sample = 0
    /\ stopped = FALSE
    /\ discarded = {}
    /\ inflight = {}
    /\ emitted = 0

WorkerStep == \E w \in Workers : Get(w) \/ One(w) \/ Lock(w) \/ Add(w)

Next ==
    \/ MainPrepare
    \/ MainSpawn
    \/ MainJoin
    \/ MainDone
    \/ Rerun
    \/ \E w \in Workers : Get(w)
    \/ \E w \in Workers : One(w)
    \/ \E w \in Workers : Lock(w)
    \/ \E w \in Workers : Add(w)

Spec == Init /\ [][Next]_vars

\* the processes of the queue launcher keep running
FairQueue ==
    /\ \A w \in Workers : WF_vars(Get(w) \/ One(w) \/ Lock(w) \/ Add(w))
    /\ WF_vars(MainPrepare \/ MainSpawn \/ MainJoin \/ MainDone)

FairSpec == Spec /\ FairQueue

\* a worker process is killed, or its disk fills up, while image.save or
\* shutil.copy is writing the destination: the data written so far stays
\* at the destination path
Die(w) ==
    /\ pc[w] = "one"
    /\ LET r == CompressAndSaveOne(fs, task[w][1], task[w][2], max_width)
       IN  /\ ~r.raised
           /\ fs' = Put(r.fs, task[w][2],
                        [r.fs[task[w][2]] EXCEPT !.enc = "partial"])
    /\ invoked' = invoked (+) SetToBag({<<w, task[w]>>})
    /\ pc' = [pc EXCEPT ![w] = "crashed"]
    /\ failed' = failed \cup {task[w]}
    /\ UNCHANGED <<num_workers, tasks, num_tasks, counter, lockHolder, task, tmp,
                   mainPc, spawned, joined, run, enumerated, firstRun,
                   guiVars>>
    /\ UNCHANGED <<launcher, jobs>>

NextCrash ==
    \/ MainPrepare
    \/ MainSpawn
    \/ MainJoin
    \/ MainDone
    \/ Rerun
    \/ \E w \in Workers : Get(w)
    \/ \E w \in Workers : One(w)
    \/ \E w \in Workers : Lock(w)
    \/ \E w \in Workers : Add(w)
    \/ \E w \in Workers : Die(w)

\* the queue launcher in a world where worker processes can die
SpecCrash == Init /\ [][NextCrash]_vars

---------------------------------------------------------------------------
(* jpeg-compressor.py: the queue launcher with a progress bar.  Its        *)
(* prepare_tasks, compress_and_save_many and compress_and_save_one are     *)
(* those of compressor.py with log messages added.                         *)

\* nothing has run yet
Idle ==
    /\ tasks = <<>>
    /\ num_tasks = 0
    /\ counter = 0
    /\ lockHolder = 0
    /\ pc = NoProcesses
    /\ task = [w \in Workers |-> NoTask]
    /\ tmp = [w \in Workers |-> 0]
    /\ spawned = 0
    /\ joined = 0
    /\ invoked = EmptyBag
    /\ failed = {}
    /\ firstRun = NoRun
    /\ btn = [use_start_btn |-> TRUE, disable |-> FALSE]
    /\ threadRunning = FALSE
    /\ runPc = "idle"
    /\ sample = 0
    /\ stopped = FALSE
    /\ discarded = {}
    /\ inflight = {}
    /\ emitted = 0
    /\ jobs = <<>>

\* show_progress: one test of "while any(p.is_alive() for p in processes)"
\* with the update of the bar in its body, or the update after the loop;
\* pbar.update(counter.value - pbar.n) moves pbar.n to counter.value
ShowProgress ==
    /\ mainPc = "show"
    /\ sample' = counter
    /\ emitted' = 1 - emitted
    /\ mainPc' = IF \E w \in Workers : Alive(w) THEN "show" ELSE "join"
    /\ UNCHANGED <<fs, num_workers, tasks, num_tasks, counter, lockHolder, pc, task,
                   tmp, spawned, joined, run, enumerated, invoked, failed,
                   firstRun, btn, threadRunning, runPc, stopped, discarded,
                   inflight>>
    /\ UNCHANGED <<launcher, jobs>>

InitJc ==
    /\ fs \in InitialFs
    /\ num_workers \in 1..MaxWorkers
    /\ mainPc = "prepare"
    /\ run = 1
    /\ enumerated = <<>>
    /\ launcher = "jpeg-compressor"
    /\ Idle

---------------------------------------------------------------------------
(* cli.py: static sharding                                                 *)

Min(a, b) == IF a < b THEN a ELSE b

\* random.shuffle(jobs_list)
Shuffles(l) == Orderings(Range(l))

\* jobs_per_worker
JobsPerWorker(len, n) == len \div n + 1

\* a slice that is one element too long
SliceLong(l, i, size) == SubSeq(l, i + 1, Min(i + size + 1, Len(l)))

\* jobs_list[i : i + size]
Slice(l, i, size) == SubSeq(l, i + 1, Min(i + size, Len(l)))

\* the starts i of "for i in range(0, len(jobs_list), jobs_per_worker)"
SliceStarts(len, step) == {i \in 0..(len - 1) : i % step = 0}

\* get_compress_jobs without the empty lists
GetCompressJobsNoPadding(l, n) ==
    LET size == JobsPerWorker(Len(l), n)
        slices == Cardinality(SliceStarts(Len(l), size))
    IN  [k \in 1..slices |-> Slice(l, (k - 1) * size, size)]

\* get_compress_jobs from the shuffled jobs_list on: the slices, then an
\* empty list for every worker that has none
GetCompressJobs(l, n) ==
    LET size == JobsPerWorker(Len(l), n)
        slices == Cardinality(SliceStarts(Len(l), size))
        padding == IF n - slices > 0 THEN n - slices ELSE 0
    IN  [k \in 1..(slices + padding) |->
            IF k <= slices THEN Slice(l, (k - 1) * size, size) ELSE <<>>]

\* get_compress_jobs
CliPrepare ==
    /\ mainPc = "cli_prepare"
    /\ fs' = PrepareFs(fs, OutputDir)
    /\ \E l \in TasksLists(fs, InputDir, OutputDir) :
          \E shuffled \in Shuffles(l) :
              /\ enumerated' = shuffled
              /\ num_tasks' = Len(shuffled)
              /\ jobs' = GetCompressJobs(shuffled, num_workers)
    /\ mainPc' = "cli_spawn"
    /\ UNCHANGED <<num_workers, tasks, counter, lockHolder, pc, task, tmp, spawned,
                   joined, run, invoked, failed, firstRun, guiVars, launcher>>

\* one turn of "for i in range(args.num_workers): ... args_list[i] ...
\* p.start()"
CliSpawn ==
    /\ mainPc = "cli_spawn"
    /\ spawned < num_workers
    /\ IF spawned + 1 \in DOMAIN jobs
       THEN /\ pc' = [pc EXCEPT ![spawned + 1] = "next"]
            /\ spawned' = spawned + 1
            /\ mainPc' = IF spawned + 1 < num_workers THEN "cli_spawn"
                         ELSE "cli_atexit"
       ELSE /\ mainPc' = "cli_raised"
            /\ UNCHANGED <<pc, spawned>>
    /\ UNCHANGED <<fs, num_workers, tasks, num_tasks, counter, lockHolder, task, tmp,
                   joined, run, enumerated, invoked, failed, firstRun, guiVars,
                   launcher, jobs>>

\* the script is over: the exit handler of multiprocessing joins the child
\* processes, one per turn
CliAtExit ==
    /\ mainPc = "cli_atexit"
    /\ joined < num_workers
    /\ Gone(joined + 1)
    /\ joined' = joined + 1
    /\ UNCHANGED <<fs, num_workers, tasks, num_tasks, counter, lockHolder, pc, task,
                   tmp, mainPc, spawned, run, enumerated, invoked, failed, firstRun,
                   guiVars, launcher, jobs>>

\* the process of cli.py is gone; gui.py's subprocess.call returns
CliExited ==
    /\ mainPc = "cli_atexit"
    /\ joined = num_workers
    /\ mainPc' = "cli_done"
    /\ UNCHANGED <<fs, num_workers, tasks, num_tasks, counter, lockHolder, pc, task,
                   tmp, spawned, joined, run, enumerated, invoked, failed, firstRun,
                   guiVars, launcher, jobs>>

\* cli.compress_and_save_many: one turn of "for input_file, output_file in
\* jobs", or the end of the loop
ShardNext(w) ==
    /\ pc[w] = "next"
    /\ IF jobs[w] # <<>>
       THEN /\ task' = [task EXCEPT ![w] = Head(jobs[w])]
            /\ jobs' = [jobs EXCEPT ![w] = Tail(jobs[w])]
            /\ pc' = [pc EXCEPT ![w] = "job"]
       ELSE /\ pc' = [pc EXCEPT ![w] = "exited"]
            /\ UNCHANGED <<task, jobs>>
    /\ UNCHANGED <<fs, num_workers, tasks, num_tasks, counter, lockHolder, tmp,
                   mainPc, spawned, joined, run, enumerated, invoked, failed,
                   firstRun, guiVars, launcher>>

\* cli.compress_and_save_many: compress_and_save_one(input_file, output_file,
\* max_width) and count += 1; an exception ends the process
ShardOne(w) ==
    /\ pc[w] = "job"
    /\ LET r == CompressAndSaveOne(fs, task[w][1], task[w][2], max_width)
       IN  /\ fs' = r.fs
           /\ invoked' = invoked (+) SetToBag({<<w, task[w]>>})
           /\ IF r.raised
              THEN /\ pc' = [pc EXCEPT ![w] = "crashed"]
                   /\ failed' = failed \cup {task[w]}
                   /\ UNCHANGED task
              ELSE /\ pc' = [pc EXCEPT ![w] = "next"]
                   /\ task' = [task EXCEPT ![w] = NoTask]
                   /\ UNCHANGED failed
    /\ UNCHANGED <<num_workers, tasks, num_tasks, counter, lockHolder, tmp, mainPc,
                   spawned, joined, run, enumerated, firstRun, guiVars, launcher,
                   jobs>>

InitCli ==
    /\ fs \in InitialFs
    /\ num_workers \in 1..MaxWorkers
    /\ mainPc = "cli_prepare"
    /\ run = 1
    /\ enumerated = <<>>
    /\ launcher = "cli"
    /\ Idle

---------------------------------------------------------------------------
(* cli.get_compress_jobs on lists of any length: the jobs are numbers      *)

\* the jobs_list of len jobs before it is shuffled
JobsList(len) == [i \in 1..len |-> i]

InitJobs ==
    /\ fs = NoInputFs
    /\ num_workers \in 1..MaxShards
    /\ mainPc = "jobs_list"
    /\ run = 1
    /\ enumerated \in {JobsList(len) : len \in 0..MaxJobs}
    /\ launcher = "cli"
    /\ Idle

\* random.shuffle(jobs_list)
Shuffle ==
    /\ mainPc = "jobs_list"
    /\ enumerated' \in Shuffles(enumerated)
    /\ mainPc' = "shuffled"
    /\ UNCHANGED <<fs, num_workers, tasks, num_tasks, counter, lockHolder, pc, task,
                   tmp, spawned, joined, run, invoked, failed, firstRun, guiVars,
                   launcher, jobs>>

\* the slices and the padding of get_compress_jobs
Shard ==
    /\ mainPc = "shuffled"
    /\ jobs' = GetCompressJobs(enumerated, num_workers)
    /\ num_tasks' = Len(enumerated)
    /\ mainPc' = "jobs"
    /\ UNCHANGED <<fs, num_workers, tasks, counter, lockHolder, pc, task, tmp,
                   spawned, joined, run, enumerated, invoked, failed, firstRun,
                   guiVars, launcher>>

NextJobs == Shuffle \/ Shard

SpecJobs == InitJobs /\ [][NextJobs]_vars

---------------------------------------------------------------------------
(* main.py: the window and its worker thread.  The revision of compressor  *)
(* main.py imports provides get_tasks_list and clear_tasks and a           *)
(* compress_and_save_many that takes no lock; the loop of the worker       *)
(* process is the one of compressor.compress_and_save_many.                *)

\* compressor.get_tasks_list: a task for every regular file below the input
\* root whose mirrored output path does not exist
GetTasksList(f, input_dir, output_dir) ==
    Orderings({<<p, GetOutputFile(p, input_dir, output_dir)>> :
        p \in {q \in DOMAIN f :
                 /\ IsPrefix(input_dir, q)
                 /\ IsFile(f, q)
                 /\ ~Exists(f, GetOutputFile(q, input_dir, output_dir))}})

\* compressor.clear_tasks: the queue after the remaining tasks were discarded
ClearTasks(queue) == <<>>

\* set_btn_state
SetBtnState(use_start_btn, disable) ==
    [use_start_btn |-> use_start_btn, disable |-> disable]

StartBtnUsable == btn.use_start_btn /\ ~btn.disable

StopBtnUsable == ~btn.use_start_btn /\ ~btn.disable

\* on_start_btn_pressed: list the tasks, fill a new queue, make a new
\* counter and start the worker thread
OnStartBtnPressed ==
    /\ launcher = "main"
    /\ mainPc = "gui"
    /\ StartBtnUsable
    /\ run < MaxRuns
    /\ run' = run + 1
    /\ fs' = PrepareFs(fs, OutputDir)
    /\ \E l \in GetTasksList(PrepareFs(fs, OutputDir), InputDir, OutputDir) :
          /\ tasks' = l
          /\ enumerated' = l
          /\ num_tasks' = Len(l)
    /\ btn' = SetBtnState(FALSE, FALSE)
    /\ counter' = 0
    /\ sample' = 0
    /\ threadRunning' = TRUE
    /\ runPc' = "spawn"
    /\ pc' = NoProcesses
    /\ task' = [w \in Workers |-> NoTask]
    /\ tmp' = [w \in Workers |-> 0]
    /\ spawned' = 0
    /\ joined' = 0
    /\ invoked' = EmptyBag
    /\ failed' = {}
    /\ stopped' = FALSE
    /\ discarded' = {}
    /\ inflight' = {}
    /\ emitted' = 0
    /\ UNCHANGED <<num_workers, lockHolder, mainPc, firstRun>>
    /\ UNCHANGED <<launcher, jobs>>

\* Worker.run: one turn of "for _ in range(self.num_processes): ... p.start()"
RunSpawn ==
    /\ runPc = "spawn"
    /\ spawned < num_workers
    /\ pc' = [pc EXCEPT ![spawned + 1] = "get"]
    /\ spawned' = spawned + 1
    /\ runPc' = IF spawned + 1 = num_workers THEN "poll" ELSE "spawn"
    /\ UNCHANGED <<fs, num_workers, tasks, num_tasks, counter, lockHolder, task, tmp,
                   mainPc, joined, run, enumerated, invoked, failed, firstRun,
                   btn, threadRunning, sample, stopped, discarded, inflight,
                   emitted>>
    /\ UNCHANGED <<launcher, jobs>>

\* a loop of Worker.run that is left at once
PollNever(value, total) == FALSE

\* the loop of Worker.run goes on while this holds
PollAgain(value, total) == value < total

\* a loop that forwards the change of the counter since the last signal
RunPollDelta ==
    /\ runPc = "poll"
    /\ IF PollAgain(counter, num_tasks)
       THEN /\ sample' = counter - sample
            /\ emitted' = 1 - emitted
            /\ UNCHANGED runPc
       ELSE /\ runPc' = "join"
            /\ UNCHANGED <<sample, emitted>>
    /\ UNCHANGED <<fs, num_workers, tasks, num_tasks, counter, lockHolder, pc, task,
                   tmp, mainPc, spawned, joined, run, enumerated, invoked, failed,
                   firstRun, btn, threadRunning, stopped, discarded, inflight>>
    /\ UNCHANGED <<launcher, jobs>>

\* Worker.run: one test of "while self.counter.value < self.num_tasks", and
\* the progress signal of its body
RunPoll ==
    /\ runPc = "poll"
    /\ IF PollAgain(counter, num_tasks)
       THEN /\ sample' = counter
            /\ emitted' = 1 - emitted
            /\ UNCHANGED runPc
       ELSE /\ runPc' = "join"
            /\ UNCHANGED <<sample, emitted>>
    /\ UNCHANGED <<fs, num_workers, tasks, num_tasks, counter, lockHolder, pc, task,
                   tmp, mainPc, spawned, joined, run, enumerated, invoked, failed,
                   firstRun, btn, threadRunning, stopped, discarded, inflight>>
    /\ UNCHANGED <<launcher, jobs>>

\* a join that does not wait for the process
RunJoinNoWait ==
    /\ runPc = "join"
    /\ joined < num_workers
    /\ joined' = joined + 1
    /\ UNCHANGED <<fs, num_workers, tasks, num_tasks, counter, lockHolder, pc, task,
                   tmp, mainPc, spawned, run, enumerated, invoked, failed, firstRun,
                   guiVars>>
    /\ UNCHANGED <<launcher, jobs>>

\* Worker.run: one turn of "for p in processes: p.join()"
RunJoin ==
    /\ runPc = "join"
    /\ joined < num_workers
    /\ Gone(joined + 1)
    /\ joined' = joined + 1
    /\ UNCHANGED <<fs, num_workers, tasks, num_tasks, counter, lockHolder, pc, task,
                   tmp, mainPc, spawned, run, enumerated, invoked, failed, firstRun,
                   guiVars>>
    /\ UNCHANGED <<launcher, jobs>>

\* an end of Worker.run that sends the finished signal only
RunFinishNoSample ==
    /\ runPc = "join"
    /\ joined = num_workers
    /\ runPc' = "finished"
    /\ UNCHANGED <<fs, num_workers, tasks, num_tasks, counter, lockHolder, pc, task,
                   tmp, mainPc, spawned, joined, run, enumerated, invoked, failed,
                   firstRun, btn, threadRunning, sample, stopped, discarded,
                   inflight, emitted>>
    /\ UNCHANGED <<launcher, jobs>>

\* Worker.run: the last progress signal and the finished signal
RunFinish ==
    /\ runPc = "join"
    /\ joined = num_workers
    /\ sample' = counter
    /\ emitted' = 1 - emitted
    /\ runPc' = "finished"
    /\ UNCHANGED <<fs, num_workers, tasks, num_tasks, counter, lockHolder, pc, task,
                   tmp, mainPc, spawned, joined, run, enumerated, invoked, failed,
                   firstRun, btn, threadRunning, stopped, discarded, inflight>>
    /\ UNCHANGED <<launcher, jobs>>

\* a stop handler that leaves the queue as it is
OnStopBtnPressedNoClear ==
    /\ launcher = "main"
    /\ StopBtnUsable
    /\ btn' = SetBtnState(TRUE, TRUE)
    /\ stopped' = TRUE
    /\ inflight' = inflight \cup {task[w] : w \in {v \in Workers : pc[v] = "one"}}
    /\ UNCHANGED <<fs, num_workers, tasks, num_tasks, counter, lockHolder, pc, task,
                   tmp, mainPc, spawned, joined, run, enumerated, invoked, failed,
                   firstRun, threadRunning, runPc, sample, discarded, emitted>>
    /\ UNCHANGED <<launcher, jobs>>

\* on_stop_btn_pressed
OnStopBtnPressed ==
    /\ launcher = "main"
    /\ StopBtnUsable
    /\ btn' = SetBtnState(TRUE, TRUE)
    /\ tasks' = ClearTasks(tasks)
    /\ stopped' = TRUE
    /\ discarded' = discarded \cup Range(tasks)
    /\ inflight' = inflight \cup {task[w] : w \in {v \in Workers : pc[v] = "one"}}
    /\ UNCHANGED <<fs, num_workers, num_tasks, counter, lockHolder, pc, task, tmp,
                   mainPc, spawned, joined, run, enumerated, invoked, failed,
                   firstRun, threadRunning, runPc, sample, emitted>>
    /\ UNCHANGED <<launcher, jobs>>

\* closeEvent: self.worker_thread is made by on_start_btn_pressed, so before
\* the first run reading it raises AttributeError; while the thread runs the
\* event is ignored and on_stop_btn_pressed is called; else it is accepted
\* and the program ends
CloseEvent ==
    /\ launcher = "main"
    /\ mainPc = "gui"
    /\ IF run = 0
       THEN /\ mainPc' = "close_raised"
            /\ UNCHANGED <<btn, tasks, stopped, discarded, inflight>>
       ELSE IF threadRunning
       THEN /\ btn' = SetBtnState(TRUE, TRUE)
            /\ tasks' = ClearTasks(tasks)
            /\ stopped' = TRUE
            /\ discarded' = discarded \cup Range(tasks)
            /\ inflight' = inflight \cup
                              {task[w] : w \in {v \in Workers : pc[v] = "one"}}
            /\ UNCHANGED mainPc
       ELSE /\ mainPc' = "closed"
            /\ UNCHANGED <<btn, tasks, stopped, discarded, inflight>>
    /\ UNCHANGED <<fs, num_workers, num_tasks, counter, lockHolder, pc, task, tmp,
                   spawned, joined, run, enumerated, invoked, failed, firstRun,
                   threadRunning, runPc, sample, emitted, launcher, jobs>>

\* on_worker_finished, the slot of the finished signal
OnWorkerFinished ==
    /\ runPc = "finished"
    /\ threadRunning' = FALSE
    /\ btn' = SetBtnState(TRUE, FALSE)
    /\ runPc' = "idle"
    /\ UNCHANGED <<fs, num_workers, tasks, num_tasks, counter, lockHolder, pc, task,
                   tmp, mainPc, spawned, joined, run, enumerated, invoked, failed,
                   firstRun, sample, stopped, discarded, inflight, emitted>>
    /\ UNCHANGED <<launcher, jobs>>

InitGui ==
    /\ \E S \in Trees : \E Done \in SUBSET S : fs = MakeFs(S, Done)
    /\ num_workers \in 1..MaxWorkers
    /\ tasks = <<>>
    /\ num_tasks = 0
    /\ counter = 0
    /\ lockHolder = 0
    /\ pc = NoProcesses
    /\ task = [w \in Workers |-> NoTask]
    /\ tmp = [w \in Workers |-> 0]
    /\ mainPc = "gui"
    /\ spawned = 0
    /\ joined = 0
    /\ run = 0
    /\ enumerated = <<>>
    /\ invoked = EmptyBag
    /\ failed = {}
    /\ firstRun = NoRun
    /\ launcher = "main"
    /\ jobs = <<>>
    /\ btn = SetBtnState(TRUE, FALSE)
    /\ threadRunning = FALSE
    /\ runPc = "idle"
    /\ sample = 0
    /\ stopped = FALSE
    /\ discarded = {}
    /\ inflight = {}
    /\ emitted = 0

NextGui ==
    \/ OnStartBtnPressed
    \/ OnStopBtnPressed
    \/ CloseEvent
    \/ OnWorkerFinished
    \/ RunSpawn
    \/ RunPoll
    \/ RunJoin
    \/ RunFinish
    \/ \E w \in Workers : Get(w)
    \/ \E w \in Workers : One(w)
    \/ \E w \in Workers : Lock(w)
    \/ \E w \in Workers : Add(w)

SpecGui == InitGui /\ [][NextGui]_vars

\* the worker processes, the worker thread and the event loop of the window
\* keep running; nobody has to press a button
FairGui ==
    /\ \A w \in Workers : WF_vars(Get(w) \/ One(w) \/ Lock(w) \/ Add(w))
    /\ WF_vars(RunSpawn \/ RunPoll \/ RunJoin \/ RunFinish)
    /\ WF_vars(OnWorkerFinished)

FairSpecGui == SpecGui /\ FairGui

\* a run of the window in which the stop button is never pressed
NextGuiRun ==
    \/ OnStartBtnPressed
    \/ OnWorkerFinished
    \/ RunSpawn
    \/ RunPoll
    \/ RunJoin
    \/ RunFinish
    \/ \E w \in Workers : Get(w)
    \/ \E w \in Workers : One(w)
    \/ \E w \in Workers : Lock(w)
    \/ \E w \in Workers : Add(w)

FairSpecGuiRun == InitGui /\ [][NextGuiRun]_vars /\ FairGui

---------------------------------------------------------------------------
(* The four programs                                                       *)

InitAll == Init \/ InitJc \/ InitCli \/ InitGui

NextAll ==
    \/ MainPrepare
    \/ MainSpawn
    \/ ShowProgress
    \/ MainJoin
    \/ MainDone
    \/ Rerun
    \/ CliPrepare
    \/ CliSpawn
    \/ CliAtExit
    \/ CliExited
    \/ OnStartBtnPressed
    \/ OnStopBtnPressed
    \/ CloseEvent
    \/ OnWorkerFinished
    \/ RunSpawn
    \/ RunPoll
    \/ RunJoin
    \/ RunFinish
    \/ \E w \in Workers : Get(w)
    \/ \E w \in Workers : One(w)
    \/ \E w \in Workers : Lock(w)
    \/ \E w \in Workers : Add(w)
    \/ \E w \in Workers : ShardNext(w)
    \/ \E w \in Workers : ShardOne(w)

SpecAll == InitAll /\ [][NextAll]_vars

---------------------------------------------------------------------------
(* Properties                                                              *)

\* the number of calls of compress_and_save_one on task t in the current run
RECURSIVE SumCalls(_, _)
SumCalls(t, W) ==
    IF W = {} THEN 0
    ELSE LET w == CHOOSE v \in W : TRUE
         IN  CopiesIn(<<w, t>>, invoked) + SumCalls(t, W \ {w})

Calls(t) == SumCalls(t, Workers)

\* the worker processes that called compress_and_save_one on task t
Takers(t) == {w \in Workers : CopiesIn(<<w, t>>, invoked) > 0}

\* the regular files below the input root
InputFiles == {p \in DOMAIN fs : IsPrefix(InputDir, p) /\ IsFile(fs, p)}

Mirror(p) == Join(OutputDir, RelativeTo(p, InputDir))

\* the destination files the current run has created
Created == {t \in Range(enumerated) : IsFile(fs, t[2])}

AllGone == \A w \in Workers : w <= num_workers => Gone(w)

\* C1: no task is handed to two workers or invoked twice, and when the run
\* of the queue launcher is over every enumerated task was taken by exactly
\* one worker and compress_and_save_one was invoked on it exactly once.
C1_ExactlyOnce ==
    /\ \A t \in Range(enumerated) : Calls(t) <= 1 /\ Cardinality(Takers(t)) <= 1
    /\ mainPc = "done" =>
         \A t \in Range(enumerated) : Calls(t) = 1 /\ Cardinality(Takers(t)) = 1

C3_EveryFileMirrored ==
    (mainPc = "done" /\ counter = num_tasks) =>
        \A p \in InputFiles : IsFile(fs, Mirror(p))

\* C4: enumeration yields a task for an entry below the input root if and
\* only if the entry is a regular file whose mirrored output path does not
\* exist.
C4_EnumerationExact ==
    (mainPc = "spawn" /\ spawned = 0) =>
        Range(enumerated) =
            {<<p, Mirror(p)>> : p \in {q \in InputFiles : ~Exists(fs, Mirror(q))}}

\* C5: after a first run that completed (all workers exited with the counter
\* at the number of tasks), a later run on the same directories enumerates no
\* task and invokes compress_and_save_one on nothing.
C5_SecondRunEmpty ==
    (run >= 2 /\ mainPc # "prepare" /\ firstRun.count = firstRun.total) =>
        enumerated = <<>> /\ num_tasks = 0 /\ invoked = EmptyBag

\* C5 witness: a first run with work to do completed and the second run is over
C5_Witness ==
    /\ run = 2
    /\ mainPc = "done"
    /\ firstRun.total >= 2
    /\ firstRun.count = firstRun.total

\* C6: a worker whose compress_and_save_one raises does not exit; it goes
\* on to take the next task.
C6_WorkerSurvivesFailure ==
    [][\A w \in Workers :
          (pc[w] = "one" /\ pc'[w] # "one" /\ task[w] \in failed')
              => pc'[w] = "get"]_vars

\* C7: once the workers are spawned, the run reaches the finished state.
C7_RunTerminates == (runPc = "poll") ~> (runPc = "finished")

\* C8: when the run is over with no stop requested, every task other than
\* the failed ones was taken and processed.
C8_OthersProcessed ==
    mainPc = "done" =>
        \A t \in Range(enumerated) \ failed : Calls(t) >= 1 /\ IsFile(fs, t[2])

\* C9: once a stop is requested no worker starts a task, the tasks workers
\* held keep being held until their operation is over, and no destination
\* exists for a task the stop removed from the queue.
C9_StopStartsNothing ==
    [][stopped' =>
          /\ \A w \in Workers :
                pc'[w] = "one" => (pc[w] = "one" /\ task'[w] = task[w])
          /\ \A w \in Workers :
                (pc[w] = "one" /\ task[w] \in inflight')
                    => (pc'[w] \in {"one", "lock", "crashed"} /\ task'[w] = task[w])
          /\ \A t \in discarded' : ~Exists(fs', t[2])]_vars

\* C9 witness: a stop removed tasks from the queue while a worker held a
\* task, and that task's destination was written afterwards
C9_Witness ==
    /\ stopped
    /\ discarded # {}
    /\ \E t \in inflight : IsFile(fs, t[2]) /\ Calls(t) = 1
    /\ AllGone

\* C10: after a stop request the run reaches the finished state.
C10_StopTerminates ==
    (stopped /\ runPc \in {"spawn", "poll", "join"}) ~> (runPc = "finished")

\* C11: when the finished signal is emitted, "All done!" is printed or the
\* process of cli.py is gone, every worker process was spawned, has exited
\* and was joined.
C11_FinishedAfterJoin ==
    (mainPc \in {"done", "cli_done"} \/ runPc = "finished") =>
        /\ spawned = num_workers
        /\ joined = num_workers
        /\ AllGone

\* C11 witness: the worker thread of the window sent the finished signal
\* after two worker processes that counted a task
C11_Witness ==
    /\ runPc = "finished"
    /\ num_workers >= 2
    /\ counter >= 1
    /\ joined = num_workers

\* C12: within one run the value forwarded to the progress bar never
\* decreases and never exceeds the number of tasks.
C12_SamplesMonotone ==
    [][run' = run => (sample' >= sample /\ sample' <= num_tasks')]_vars

\* C12 witness: the worker thread forwarded 1 of 2 and polls on
C12_Witness ==
    /\ runPc = "poll"
    /\ num_tasks = 2
    /\ sample = 1

\* C13: when the reporter is done (finished signal sent, or show_progress
\* returned), all workers have exited and the value last forwarded is the
\* value of the counter.
C13_LastSampleFinal ==
    (runPc = "finished" \/ (launcher = "jpeg-compressor" /\ mainPc \in {"join", "done"}))
        => (AllGone /\ sample = counter)

\* C13 witness: show_progress returned after two tasks were counted
C13_Witness ==
    /\ launcher = "jpeg-compressor"
    /\ mainPc = "join"
    /\ counter = 2
    /\ sample = 2

\* C14: when the program is run again after a run in which a worker died in
\* the middle of a task, the new enumeration skips a regular file only if
\* its destination was completely written.
C14_SkippedAreComplete ==
    (run >= 2 /\ mainPc = "spawn" /\ spawned = 0) =>
        \A q \in Rglob(fs, InputDir) :
            (IsFile(fs, q) /\ <<q, Mirror(q)>> \notin Range(enumerated))
                => (IsFile(fs, Mirror(q)) /\ fs[Mirror(q)].enc # "partial")

\* C15: when the input root does not exist, no worker process is spawned
\* and nothing is created at or below the output root.
C15_MissingInputAborts ==
    ~Exists(fs, InputDir) =>
        /\ spawned = 0
        /\ \A p \in DOMAIN fs : ~IsPrefix(OutputDir, p)

\* the paths the compress_and_save_one call of worker w may write
Writes(w) == {task[w][2], CopyTarget(fs, task[w][1], task[w][2])}

\* C16: the tasks of a run have pairwise distinct destinations, and two
\* workers that are inside compress_and_save_one at the same time write
\* different paths.
C16_DistinctDestinations ==
    /\ \A i, j \in DOMAIN enumerated :
          i # j => enumerated[i][2] # enumerated[j][2]
    /\ \A v, w \in Workers :
          (v # w /\ pc[v] = "one" /\ pc[w] = "one") => Writes(v) \cap Writes(w) = {}

\* C16 witness: two workers are inside compress_and_save_one at once
C16_Witness ==
    /\ pc[1] = "one"
    /\ pc[2] = "one"
    /\ Len(enumerated) = 2

\* C17: once compress_and_save_one was called on a task whose source is a
\* readable regular file, the destination holds the resized, re-encoded
\* image if the source has a suffix of SUFFIXES, is wider than max_width and
\* can be encoded as JPEG, and an identical copy of the source in every
\* other case, a source that cannot be opened as an image included.
C17_ResizeOrCopy ==
    \A t \in Range(enumerated) :
        (Calls(t) >= 1 /\ IsFile(fs, t[1]) /\ fs[t[1]].readable) =>
            /\ IsFile(fs, t[2])
            /\ IF /\ Suffix(Last(t[1])) \in SUFFIXES
                  /\ fs[t[1]].width > max_width
                  /\ fs[t[1]].img = "rgb"
               THEN fs[t[2]].enc = "q95" /\ fs[t[2]].width <= max_width
               ELSE fs[t[2]] = fs[t[1]]

\* C18: the lists get_compress_jobs returns are pairwise disjoint, hold no
\* job twice, and together hold exactly the jobs of jobs_list.
C18_ShardsPartition ==
    mainPc = "jobs" =>
        /\ \A a, b \in DOMAIN jobs :
              a # b => Range(jobs[a]) \cap Range(jobs[b]) = {}
        /\ \A k \in DOMAIN jobs : Cardinality(Range(jobs[k])) = Len(jobs[k])
        /\ UNION {Range(jobs[k]) : k \in DOMAIN jobs} = Range(enumerated)

\* C18 witness: get_compress_jobs returned three lists that are not empty
C18_Witness ==
    /\ mainPc = "jobs"
    /\ Cardinality({k \in DOMAIN jobs : jobs[k] # <<>>}) >= 3

\* C19: whenever the queue is empty, a moment follows at which no worker
\* process is alive: every worker that was alive got Empty and returned,
\* or the task it held ended it.
C19_WorkersSeeEmpty ==
    (tasks = <<>>) ~> (\A w \in Workers : ~Alive(w))

\* C19 witness: a run with no task, both workers returned on Empty
C19_Witness ==
    /\ mainPc = "join"
    /\ num_tasks = 0
    /\ num_workers = 2
    /\ pc[1] = "exited"
    /\ pc[2] = "exited"

C22_CounterAtMostWritten ==
    counter <= Cardinality(Created)

\* C22 witness: two destinations are written, one is counted and a worker
\* is about to count the other
C22_Witness ==
    /\ Cardinality(Created) = 2
    /\ counter = 1
    /\ \E w \in Workers : pc[w] = "add"

\* C23: get_compress_jobs returns exactly num_workers lists, so args_list[i]
\* exists for every i the launcher of cli.py asks for.
C23_OneListPerWorker ==
    /\ mainPc = "jobs" => Len(jobs) = num_workers
    /\ mainPc # "cli_raised"

\* C23 witness: fewer jobs than workers, and lists were added
C23_Witness ==
    /\ mainPc = "jobs"
    /\ Len(enumerated) = 2
    /\ num_workers = 4
    /\ Len(jobs) = 4

\* C24: the lengths of any two lists get_compress_jobs returns differ by at
\* most one.
C24_ShardsEven ==
    mainPc = "jobs" =>
        \A a, b \in DOMAIN jobs : Len(jobs[a]) - Len(jobs[b]) <= 1

\* C25: closeEvent never raises; while the worker thread is running no step
\* ends the program; and when a close request is accepted no worker thread
\* is running and no worker process is alive.
C25_CloseOnlyWhenIdle ==
    /\ [](mainPc # "close_raised")
    /\ [][(threadRunning /\ mainPc = "gui") => mainPc' = "gui"]_vars
    /\ [][(mainPc = "gui" /\ mainPc' = "closed") =>
            (~threadRunning /\ \A w \in Workers : ~Alive(w))]_vars

\* on_stop_btn_pressed runs: the stop button is pressed, or a close request
\* arrives while the worker thread is running
StopHandlerRuns ==
    \/ OnStopBtnPressed
    \/ CloseEvent /\ run > 0 /\ threadRunning

\* C26: a new run (queue, counter, worker thread) is started only when no
\* worker thread is running and no worker process is alive, and in a run
\* in which on_stop_btn_pressed has run it cannot run again.
C26_OneRunOneStop ==
    /\ [][run' # run => (~threadRunning /\ \A w \in Workers : ~Alive(w))]_vars
    /\ []((stopped /\ threadRunning) => ~ENABLED StopHandlerRuns)

=============================================================================
